---- MODULE Spec2Model ----
(***************************************************************************)
(* File-Organizer: a batch utility that walks configured source trees and  *)
(* moves every file of at least MinFileSize bytes into the paired target   *)
(* directory (copy, then delete), logging each outcome, after sweeping     *)
(* log files older than logRetentionDays out of the log directory.         *)
(*                                                                         *)
(* The model follows src/main.go.  The file system is a map from paths to  *)
(* contents; a path is <<directory, name>> (filepath.Join), a content is   *)
(* the identity of the file it was first seen as plus its length in bytes. *)
(* Every os call that main.go checks for an error may fail.                *)
(***************************************************************************)
EXTENDS Integers, Sequences, FiniteSets, TLC

\* ------------------------------------------------------------- bounds
\* Files present when the program is first started.
MaxFiles == 2
\* The configured threshold (min_file_size), in the model's unit of length.
MinFileSize == 2
\* Times the program is started, one run after the other.
MaxRuns == 2

\* ---------------------------------------------------------- constants
\* const logRetentionDays
logRetentionDays == 5

\* ------------------------------------------------------- the file tree
\* Directories that exist.  "s1/d" is the subdirectory d of s1.
Dirs == {"s1", "s1/d", "s2", "t1", "t2"}
\* File names, and the one subdirectory name, in the lexical order in which
\* filepath.Walk visits the entries of a directory.
NameOrder == <<"a", "b", "d">>
FileNames == {"a", "b"}
Paths == Dirs \X FileNames
\* Where a file may be when the program is first started.
InitPaths == Paths \ {<<"s1/d", "b">>, <<"s2", "b">>, <<"t2", "b">>}

\* filepath.Join(dir, name)
Join(dir, name) == <<dir, name>>
\* The path of a root directory handed to filepath.Walk.
Root(dir) == <<dir, ".">>
\* info.Name(): the base name of a path.
Base(path) == path[2]

\* The directory a path denotes ("none" when it denotes no directory).
DirAt(path) ==
  IF path[2] = "." THEN path[1]
  ELSE IF path[1] = "s1" /\ path[2] = "d" THEN "s1/d"
  ELSE "none"

NoPath == <<>>
NoFile == [id |-> NoPath, size |-> -1]
\* File lengths: below, at and above the threshold.
Sizes == {MinFileSize - 1, MinFileSize, MinFileSize + 1}

\* ------------------------------------------------------- configuration
\* type Config
Config == [SourceDirs : Seq(STRING), TargetDirs : Seq(STRING), MinFileSize : Int]

\* defaultConfig of loadOrCreateConfig
DefaultConfig ==
  [SourceDirs |-> <<"s1", "s2">>, TargetDirs |-> <<"t1", "t2">>,
   MinFileSize |-> MinFileSize]

VARIABLES
  pc,        \* where main is
  run,       \* how many times the program has been started
  cfgFile,   \* config.json: [exists, content]
  config,    \* the loaded *Config
  fs,        \* regular files: path -> content or NoFile
  logFiles,  \* the log directory: name -> [kind, age, defect]
  log,       \* the lines this run has written to the logger
  i,         \* index of the main loop over config.SourceDirs
  todo,      \* filepath.Walk: the paths still to visit, in order
  mv,        \* the moveFile call in progress
  fs0,       \* fs as it was when this run started
  ioFailed   \* an os call has failed for no reason the model's state shows

vars == <<pc, run, cfgFile, config, fs, logFiles, log, i, todo, mv, fs0, ioFailed>>

\* A line handed to log(): what happened, to which paths, with which error.
Entry(kind, src, dst, err) == [kind |-> kind, src |-> src, dst |-> dst, err |-> err]

\* No moveFile call is in progress.  srcBefore and dstBefore are what the two
\* paths held when the call began; failed are the os calls of it that
\* returned an error.
NoMove ==
  [src |-> NoPath, dst |-> NoPath, srcOpen |-> FALSE, dstOpen |-> FALSE,
   copied |-> FALSE, err |-> "", failed |-> {},
   srcBefore |-> NoFile, dstBefore |-> NoFile]

\* The regular file at a path (NoFile when there is none).
FileAt(f, path) == IF path \in Paths THEN f[path] ELSE NoFile
IsDirPath(path) == DirAt(path) \in Dirs
\* os.Lstat / os.Stat find something at the path.
Exists(f, path) == IsDirPath(path) \/ FileAt(f, path) # NoFile

\* --------------------------------------------------------- log manager
\* The entries of the log directory, and "." for the directory itself.  An
\* entry is a file, a directory or absent; a file has an age in days; a
\* defect is the os call that fails on the entry.
LogNames == {"l1", "l2", "today"}
\* os.ReadDir returns the entries sorted by file name.
LogOrder == <<"l1", "l2", "today">>
NoLog == [kind |-> "none", age |-> 0, defect |-> ""]

\* log(): the line goes to stdout and to today's log file, whose
\* modification time becomes now.
Written(lf) ==
  IF lf["today"].kind = "file" THEN [lf EXCEPT !["today"].age = 0] ELSE lf

BeforeCutoffInclusive(age) == age >= logRetentionDays

\* info.ModTime().Before(cutoff), cutoff = now - logRetentionDays days.
BeforeCutoff(age) == age > logRetentionDays

\* cleanOldLogs, the loop over the entries `names` of the log directory:
\* the result is the directory and the lines logged.
RECURSIVE SweepFiles(_, _)
SweepFiles(names, lf) ==
  IF names = <<>> THEN [files |-> lf, lines |-> <<>>]
  ELSE
    LET n == Head(names)
        p == Join("logs", n)
        rest(lf2) == SweepFiles(Tail(names), lf2)
        with(line, r) == [files |-> r.files, lines |-> <<line>> \o r.lines]
    IN  IF lf[n].kind = "dir" THEN rest(lf)
        ELSE IF lf[n].defect = "stat"
          THEN with(Entry("sweepError", p, NoPath, "stat"), rest(lf))
        ELSE IF BeforeCutoff(lf[n].age)
          THEN IF lf[n].defect = "remove"
                 THEN with(Entry("sweepError", p, NoPath, "remove"), rest(lf))
                 ELSE with(Entry("sweepRemoved", p, NoPath, ""),
                           rest([lf EXCEPT ![n] = NoLog]))
        ELSE rest(lf)

\* cleanOldLogs
cleanOldLogs(lf) ==
  IF lf["."].defect = "read"
    THEN [files |-> lf,
          lines |-> <<Entry("sweepError", Root("logs"), NoPath, "readdir")>>]
    ELSE SweepFiles(SelectSeq(LogOrder, LAMBDA n : lf[n].kind # "none"), lf)

\* ----------------------------------------------------- transfer engine
\* readDirNames of filepath.Walk: the names in a directory, sorted.
ReadDirNames(f, dir) ==
  SelectSeq(NameOrder, LAMBDA n : Exists(f, Join(dir, n)))

\* The paths filepath.Walk queues for a directory's entries.
Children(f, dir) ==
  LET names == ReadDirNames(f, dir)
  IN  [k \in 1..Len(names) |-> Join(dir, names[k])]

QualifiesStrict(isDir, size, minFileSize) == ~isDir /\ size > minFileSize

QualifiesIgnoringSize(isDir, size, minFileSize) == ~isDir

\* The filter of processDirectory's callback:
\* !info.IsDir() && info.Size() >= minFileSize
Qualifies(isDir, size, minFileSize) == ~isDir /\ size >= minFileSize

\* targetPath := filepath.Join(targetDir, info.Name())
TargetPath(targetDir, path) == Join(targetDir, Base(path))

TargetExistsNever(f, path) == FALSE

\* moveFile: os.Stat(targetPath) returns no error, something is there.
TargetExists(f, path) == Exists(f, path)

DirFailedContinue(lines, err) ==
  /\ log' = log \o lines
              \o <<Entry("dirError", Root(config.SourceDirs[i]), NoPath, err)>>
  /\ todo' = Tail(todo)
  /\ mv' = NoMove
  /\ pc' = "walk"
  /\ UNCHANGED i

\* The callback returns err: filepath.Walk stops and returns it, and main
\* logs it and goes on with the next pair.
DirFailed(lines, err) ==
  /\ log' = log \o lines
              \o <<Entry("dirError", Root(config.SourceDirs[i]), NoPath, err)>>
  /\ i' = i + 1
  /\ todo' = <<>>
  /\ mv' = NoMove
  /\ pc' = "loop"

\* ------------------------------------------------------------- actions
\* main: config, err := loadOrCreateConfig(defaultConfigFile).  The file is
\* absent (defaults are written and returned), or cannot be opened, created
\* or decoded (main prints the error and returns), or is decoded as it is.
MainLoadConfig ==
  /\ pc = "start"
  /\ \E ok \in BOOLEAN :
       /\ ioFailed' = (ioFailed \/ ~ok)
       /\ IF ~ok
            THEN /\ pc' = "exit"
                 /\ UNCHANGED <<cfgFile, config>>
          ELSE IF ~cfgFile.exists
            THEN /\ cfgFile' = [exists |-> TRUE, content |-> DefaultConfig]
                 /\ config' = DefaultConfig
                 /\ pc' = "setup"
          ELSE /\ config' = cfgFile.content
               /\ pc' = "setup"
               /\ UNCHANGED cfgFile
  /\ UNCHANGED <<run, fs, logFiles, log, i, todo, mv, fs0>>

\* main: logFile, err := setupLogFile(), then log("[INFO] Программа запущена").
\* os.OpenFile fails when today's name is a directory; MkdirAll or OpenFile
\* may fail otherwise too.
MainSetupLog ==
  /\ pc = "setup"
  /\ \E ok \in BOOLEAN :
       /\ ioFailed' = (ioFailed \/ ~ok)
       /\ IF ~ok \/ logFiles["today"].kind = "dir"
            THEN /\ pc' = "exit"
                 /\ UNCHANGED <<logFiles, log>>
            ELSE /\ logFiles' = Written(
                      IF logFiles["today"].kind = "none"
                        THEN [logFiles EXCEPT !["today"] = [NoLog EXCEPT !.kind = "file"]]
                        ELSE logFiles)
                 /\ log' = log \o <<Entry("started", NoPath, NoPath, "")>>
                 /\ pc' = "clean"
  /\ UNCHANGED <<run, cfgFile, config, fs, i, todo, mv, fs0>>

\* main: cleanOldLogs(logger)
MainCleanOldLogs ==
  /\ pc = "clean"
  /\ LET r == cleanOldLogs(logFiles)
     IN  /\ logFiles' = r.files
         /\ log' = log \o r.lines
  /\ i' = 1
  /\ pc' = "loop"
  /\ UNCHANGED <<run, cfgFile, config, fs, todo, mv, fs0, ioFailed>>

MainLoopSkipping ==
  /\ pc = "loop"
  /\ i <= Len(config.SourceDirs)
  /\ IF i > Len(config.TargetDirs)
       THEN /\ i' = Len(config.SourceDirs) + 1
            /\ UNCHANGED <<pc, log, todo>>
       ELSE /\ log' = log \o <<Entry("processing", Root(config.SourceDirs[i]), NoPath, "")>>
            /\ todo' = <<Root(config.SourceDirs[i])>>
            /\ pc' = "walk"
            /\ UNCHANGED i
  /\ UNCHANGED <<run, cfgFile, config, fs, logFiles, mv, fs0, ioFailed>>

\* main: one pass of "for i, sourceDir := range config.SourceDirs":
\* targetDir := config.TargetDirs[i] panics when the index is out of range;
\* otherwise the directory is announced and filepath.Walk starts at its root.
MainLoop ==
  /\ pc = "loop"
  /\ i <= Len(config.SourceDirs)
  /\ IF i > Len(config.TargetDirs)
       THEN /\ pc' = "panic"
            /\ UNCHANGED <<log, todo>>
       ELSE /\ log' = log \o <<Entry("processing", Root(config.SourceDirs[i]), NoPath, "")>>
            /\ todo' = <<Root(config.SourceDirs[i])>>
            /\ pc' = "walk"
  /\ UNCHANGED <<run, cfgFile, config, fs, logFiles, i, mv, fs0, ioFailed>>

\* main: the loop is over, log("[INFO] Программа завершена").
MainFinish ==
  /\ pc = "loop"
  /\ i > Len(config.SourceDirs)
  /\ log' = log \o <<Entry("finished", NoPath, NoPath, "")>>
  /\ pc' = "done"
  /\ UNCHANGED <<run, cfgFile, config, fs, logFiles, i, todo, mv, fs0, ioFailed>>

\* filepath.Walk visits the next path and calls processDirectory's callback:
\* an Lstat or readDirNames error is returned by the callback and ends the
\* walk; a directory's entries are queued; a file that passes the filter is
\* handed to moveFile; any other file is passed over.
WalkStep ==
  /\ pc = "walk"
  /\ todo # <<>>
  /\ LET path == Head(todo)
         targetDir == config.TargetDirs[i]
     IN  \E ok \in BOOLEAN :
           /\ ioFailed' = (ioFailed \/ ~ok)
           /\ IF ~Exists(fs, path)
                THEN DirFailed(<<>>, "lstat")
              ELSE IF ~ok
                THEN DirFailed(<<>>, IF IsDirPath(path) THEN "readdir" ELSE "lstat")
              ELSE IF ~Qualifies(IsDirPath(path), FileAt(fs, path).size, config.MinFileSize)
                THEN /\ todo' = (IF IsDirPath(path) THEN Children(fs, DirAt(path)) ELSE <<>>)
                                \o Tail(todo)
                     /\ UNCHANGED <<pc, log, i, mv>>
              ELSE /\ mv' = [NoMove EXCEPT
                               !.src = path, !.dst = TargetPath(targetDir, path),
                               !.srcBefore = FileAt(fs, path),
                               !.dstBefore = FileAt(fs, TargetPath(targetDir, path))]
                   /\ pc' = "mvOpen"
                   /\ UNCHANGED <<log, i, todo>>
  /\ UNCHANGED <<run, cfgFile, config, fs, logFiles, fs0>>

\* filepath.Walk has visited everything: processDirectory returns nil.
WalkDone ==
  /\ pc = "walk"
  /\ todo = <<>>
  /\ i' = i + 1
  /\ pc' = "loop"
  /\ UNCHANGED <<run, cfgFile, config, fs, logFiles, log, todo, mv, fs0, ioFailed>>

\* moveFile returns the error `op` to the callback; the deferred Close calls
\* release whatever is still open.
MoveFails(op) ==
  /\ mv' = [mv EXCEPT !.err = op, !.failed = @ \cup {op},
                      !.srcOpen = FALSE, !.dstOpen = FALSE]
  /\ pc' = "mvReturn"

\* moveFile: sourceFile, err := os.Open(sourcePath)
MoveOpen ==
  /\ pc = "mvOpen"
  /\ \E ok \in BOOLEAN :
       /\ ioFailed' = (ioFailed \/ ~ok)
       /\ IF ~ok \/ FileAt(fs, mv.src) = NoFile
            THEN MoveFails("open")
            ELSE /\ mv' = [mv EXCEPT !.srcOpen = TRUE]
                 /\ pc' = "mvStat"
  /\ UNCHANGED <<run, cfgFile, config, fs, logFiles, log, i, todo, fs0>>

\* moveFile: os.Stat(targetPath).  No error: the target exists, and the call
\* ends with the conflict error; an error other than "not exist" ends it too.
MoveStat ==
  /\ pc = "mvStat"
  /\ \E ok \in BOOLEAN :
       /\ ioFailed' = (ioFailed \/ ~ok)
       /\ IF ~ok THEN MoveFails("stat")
          ELSE IF TargetExists(fs, mv.dst) THEN MoveFails("exists")
          ELSE /\ pc' = "mvCreate"
               /\ UNCHANGED mv
  /\ UNCHANGED <<run, cfgFile, config, fs, logFiles, log, i, todo, fs0>>

\* moveFile: targetFile, err := os.Create(targetPath).  It fails when the
\* target directory does not exist, and may fail otherwise; on success the
\* target is an empty file.
MoveCreate ==
  /\ pc = "mvCreate"
  /\ \E ok \in BOOLEAN :
       /\ ioFailed' = (ioFailed \/ ~ok)
       /\ IF ~ok \/ mv.dst \notin Paths
            THEN MoveFails("create") /\ UNCHANGED fs
            ELSE /\ fs' = [fs EXCEPT ![mv.dst] = [id |-> fs[mv.src].id, size |-> 0]]
                 /\ mv' = [mv EXCEPT !.dstOpen = TRUE]
                 /\ pc' = "mvCopy"
  /\ UNCHANGED <<run, cfgFile, config, logFiles, log, i, todo, fs0>>

MoveCopyIgnoringError ==
  /\ pc = "mvCopy"
  /\ \E n \in 0..fs[mv.src].size :
       /\ fs' = [fs EXCEPT ![mv.dst] = [id |-> fs[mv.src].id, size |-> n]]
       /\ ioFailed' = (ioFailed \/ n < fs[mv.src].size)
  /\ mv' = [mv EXCEPT !.copied = TRUE]
  /\ pc' = "mvClose"
  /\ UNCHANGED <<run, cfgFile, config, logFiles, log, i, todo, fs0>>

MoveCopyCleaningUp ==
  /\ pc = "mvCopy"
  /\ \/ /\ fs' = [fs EXCEPT ![mv.dst] = fs[mv.src]]
        /\ mv' = [mv EXCEPT !.copied = TRUE]
        /\ pc' = "mvClose"
        /\ UNCHANGED ioFailed
     \/ /\ fs' = [fs EXCEPT ![mv.dst] = NoFile]
        /\ MoveFails("copy")
        /\ ioFailed' = TRUE
  /\ UNCHANGED <<run, cfgFile, config, logFiles, log, i, todo, fs0>>

\* moveFile: io.Copy(targetFile, sourceFile).  On an error the first n bytes
\* have reached the target, which stays as it is.
MoveCopy ==
  /\ pc = "mvCopy"
  /\ \/ /\ fs' = [fs EXCEPT ![mv.dst] = fs[mv.src]]
        /\ mv' = [mv EXCEPT !.copied = TRUE]
        /\ pc' = "mvClose"
        /\ UNCHANGED ioFailed
     \/ \E n \in 0..fs[mv.src].size :
          /\ fs' = [fs EXCEPT ![mv.dst] = [id |-> fs[mv.src].id, size |-> n]]
          /\ MoveFails("copy")
          /\ ioFailed' = TRUE
  /\ UNCHANGED <<run, cfgFile, config, logFiles, log, i, todo, fs0>>

\* moveFile: sourceFile.Close(); targetFile.Close().  Neither result is
\* looked at: an error of either is recorded in mv.failed only.
MoveClose ==
  /\ pc = "mvClose"
  /\ \E srcErr \in BOOLEAN, dstErr \in BOOLEAN :
       /\ ioFailed' = (ioFailed \/ srcErr \/ dstErr)
       /\ mv' = [mv EXCEPT !.srcOpen = FALSE, !.dstOpen = FALSE,
                           !.failed = @ \cup (IF srcErr THEN {"closeSource"} ELSE {})
                                        \cup (IF dstErr THEN {"closeTarget"} ELSE {})]
  /\ pc' = "mvRemove"
  /\ UNCHANGED <<run, cfgFile, config, fs, logFiles, log, i, todo, fs0>>

\* moveFile: os.Remove(sourcePath), then return nil.
MoveRemove ==
  /\ pc = "mvRemove"
  /\ \E ok \in BOOLEAN :
       /\ ioFailed' = (ioFailed \/ ~ok)
       /\ IF ~ok
            THEN MoveFails("remove") /\ UNCHANGED fs
            ELSE /\ fs' = [fs EXCEPT ![mv.src] = NoFile]
                 /\ pc' = "mvReturn"
                 /\ UNCHANGED mv
  /\ UNCHANGED <<run, cfgFile, config, logFiles, log, i, todo, fs0>>

\* processDirectory's callback after moveFile: an error is logged and
\* returned, which ends the walk; otherwise the move is logged and the walk
\* goes on.
CallbackReturn ==
  /\ pc = "mvReturn"
  /\ IF mv.err # ""
       THEN DirFailed(<<Entry("moveError", mv.src, mv.dst, mv.err)>>, mv.err)
       ELSE /\ log' = log \o <<Entry("moved", mv.src, mv.dst, "")>>
            /\ todo' = Tail(todo)
            /\ mv' = NoMove
            /\ pc' = "walk"
            /\ UNCHANGED i
  /\ UNCHANGED <<run, cfgFile, config, fs, logFiles, fs0, ioFailed>>

\* The program has ended (normally, on a start-up error, or in a panic) and
\* is started again.
Restart ==
  /\ pc \in {"done", "exit", "panic"}
  /\ run < MaxRuns
  /\ run' = run + 1
  /\ pc' = "start"
  /\ log' = <<>>
  /\ i' = 1
  /\ todo' = <<>>
  /\ mv' = NoMove
  /\ fs0' = fs
  /\ UNCHANGED <<cfgFile, config, fs, logFiles, ioFailed>>

Next ==
  \/ MainLoadConfig
  \/ MainSetupLog
  \/ MainCleanOldLogs
  \/ MainLoop
  \/ MainFinish
  \/ WalkStep
  \/ WalkDone
  \/ MoveOpen
  \/ MoveStat
  \/ MoveCreate
  \/ MoveCopy
  \/ MoveClose
  \/ MoveRemove
  \/ CallbackReturn
  \/ Restart

\* ------------------------------------------------------ initial states
\* File systems with at most MaxFiles files among `paths`, each file with a
\* content of its own.
FileSystemsOn(paths) ==
  UNION { { [p \in Paths |-> IF p \in S THEN [id |-> p, size |-> sz[p]] ELSE NoFile] :
              sz \in [S -> Sizes] } :
          S \in { T \in SUBSET paths : Cardinality(T) <= MaxFiles } }
FileSystems == FileSystemsOn(InitPaths)
FewFileSystems == FileSystemsOn({<<"s1", "a">>, <<"s1", "b">>, <<"t1", "a">>})

\* Contents of config.json.  "s3" names a source directory that is not there.
AnyConfigs ==
  { [SourceDirs |-> s, TargetDirs |-> t, MinFileSize |-> MinFileSize] :
      s \in { <<>>, <<"s1">>, <<"s1", "s2">>, <<"s3", "s1">> },
      t \in { <<>>, <<"t1">>, <<"t1", "t2">>, <<"t1", "t1">> } }
\* The data model pairs the two lists by index: they have the same length.
PairedConfigs == { c \in AnyConfigs : Len(c.SourceDirs) = Len(c.TargetDirs) }

\* Log directories: files just inside and just outside the retention window.
Ages == {0, logRetentionDays - 1, logRetentionDays, logRetentionDays + 1}
LogEntries ==
  { NoLog, [NoLog EXCEPT !.kind = "dir"] }
    \cup { [kind |-> "file", age |-> a, defect |-> d] :
             a \in Ages, d \in {"", "stat", "remove"} }
LogDirEntries == { [kind |-> "dir", age |-> 0, defect |-> d] : d \in {"", "read"} }
AnyLogDirs ==
  { [n \in LogNames \cup {"."} |-> IF n = "." THEN d ELSE e[n]] :
      d \in LogDirEntries, e \in [LogNames -> LogEntries] }
\* A log directory with nothing wrong: one old log file.
FewLogDirs ==
  { lf \in AnyLogDirs :
      /\ lf["."].defect = "" /\ lf["l2"] = NoLog /\ lf["today"] = NoLog
      /\ lf["l1"] = [kind |-> "file", age |-> logRetentionDays + 1, defect |-> ""] }

InitWith(fileSystems, configs, logDirs) ==
  /\ pc = "start"
  /\ run = 1
  /\ cfgFile \in { [exists |-> FALSE, content |-> DefaultConfig] }
                   \cup { [exists |-> TRUE, content |-> c] : c \in configs }
  /\ config = DefaultConfig
  /\ fs \in fileSystems
  /\ fs0 = fs
  /\ logFiles \in logDirs
  /\ log = <<>>
  /\ i = 1
  /\ todo = <<>>
  /\ mv = NoMove
  /\ ioFailed = FALSE

\* The program on a configuration whose lists are paired.
Init == InitWith(FileSystems, PairedConfigs, FewLogDirs)
Spec == Init /\ [][Next]_vars

\* The program on any log directory.
InitSweep == InitWith(FileSystemsOn({<<"s1", "a">>}), {DefaultConfig}, AnyLogDirs)
SpecSweep == InitSweep /\ [][Next]_vars

\* The program on any configuration, the lists paired or not.
InitConfig == InitWith(FewFileSystems, AnyConfigs, FewLogDirs)
SpecConfig == InitConfig /\ [][Next]_vars

\* =============================================================== claims
\* The path lies in the tree rooted at directory dir.
InTree(dir, path) == path[1] = dir \/ (dir = "s1" /\ path[1] = "s1/d")
\* The pairs of the main loop.
Pairs == 1..Len(config.SourceDirs)
\* The files of pair k's source tree that passed the filter when the run began.
QualifiedAtStart(k) ==
  { p \in Paths : /\ InTree(config.SourceDirs[k], p)
                  /\ fs0[p] # NoFile
                  /\ fs0[p].size >= config.MinFileSize }
LogKinds(kinds) == { n \in 1..Len(log) : log[n].kind \in kinds }
\* The run logged an error for the walk of source directory dir.
DirErrorLogged(dir) ==
  \E n \in LogKinds({"dirError"}) : log[n].src = Root(dir)
\* The lines the step appends to the log.
NewLines == SubSeq(log', Len(log) + 1, Len(log'))

\* ---- C1
\* C1 as stated, even for runs in which no os call fails: after a complete
\* run every file that qualified at the start is at target/base name and gone
\* from its path, unless a same-named file was at that destination before the
\* run, in which case it is untouched and an error is logged.
C1_AllMovedUnlessPreexisting ==
  (pc = "done" /\ ~ioFailed) =>
    \A k \in Pairs : \A p \in QualifiedAtStart(k) :
      LET dst == TargetPath(config.TargetDirs[k], p)
      IN  IF FileAt(fs0, dst) # NoFile
            THEN /\ fs[p] = fs0[p]
                 /\ \E n \in LogKinds({"moveError"}) : log[n].src = p
            ELSE /\ fs[p] = NoFile
                 /\ FileAt(fs, dst) = fs0[p]

\* C1, amended: after a complete run every file that qualified at the start
\* either is at target/base name, whole, and gone from its path, or is still
\* at its path unchanged and an error that cut the walk of its source tree
\* short is logged.
C1_MovedOrWalkCutShort ==
  pc = "done" =>
    \A k \in Pairs : \A p \in QualifiedAtStart(k) :
      LET dst == TargetPath(config.TargetDirs[k], p)
      IN  \/ fs[p] = NoFile /\ FileAt(fs, dst) = fs0[p]
          \/ fs[p] = fs0[p] /\ DirErrorLogged(config.SourceDirs[k])

\* A complete run without any os failure that moved one file and left
\* another qualifying file behind although nothing was at its destination
\* before the run.
C1_Witness ==
  /\ pc = "done" /\ ~ioFailed
  /\ LogKinds({"moved"}) # {}
  /\ \E k \in Pairs : \E p \in QualifiedAtStart(k) :
       /\ fs[p] = fs0[p]
       /\ FileAt(fs0, TargetPath(config.TargetDirs[k], p)) = NoFile

\* ---- C2
\* A moveFile call is going on or has just returned to the callback.
InMove == pc \in {"mvOpen", "mvStat", "mvCreate", "mvCopy", "mvClose", "mvRemove", "mvReturn"}

\* C2 as stated: whenever a file is at the destination when a transfer is
\* attempted, the transfer returns the conflict error and leaves the
\* destination file and the source file as they were.
C2_ConflictWheneverTargetExists ==
  (pc = "mvReturn" /\ mv.dstBefore # NoFile) =>
    /\ mv.err = "exists"
    /\ fs[mv.dst] = mv.dstBefore
    /\ fs[mv.src] = mv.srcBefore

\* C2, amended: whenever a file is at the destination when a transfer is
\* attempted, moveFile never gets past its destination check, the destination
\* file and the source file stay as they were, and the transfer returns an
\* error: the conflict error, unless opening the source or the destination
\* check itself failed.
C2_NeverOverwrites ==
  (InMove /\ mv.dstBefore # NoFile) =>
    /\ pc \in {"mvOpen", "mvStat", "mvReturn"}
    /\ fs[mv.dst] = mv.dstBefore
    /\ fs[mv.src] = mv.srcBefore
    /\ pc = "mvReturn" => mv.err \in {"open", "stat", "exists"}
    /\ (pc = "mvReturn" /\ mv.failed \cap {"open", "stat"} = {}) => mv.err = "exists"

\* A transfer ended in the conflict error because a qualifying file with the
\* same base name, from another directory of the same source tree, had been
\* moved to the destination earlier in the run.
C2_Witness ==
  /\ pc = "mvReturn" /\ mv.err = "exists"
  /\ mv.dstBefore.id # mv.dst
  /\ mv.dstBefore.id # mv.src
  /\ InTree(config.SourceDirs[i], mv.dstBefore.id)
  /\ fs0[mv.dst] = NoFile

\* ---- C3
\* C3: a file disappears only in moveFile's os.Remove of its source, after
\* io.Copy succeeded and both handles were closed, when the destination holds
\* the whole content; and a moveFile call that returns an error has left its
\* source as it was.
C3_RemovedOnlyAfterCopy ==
  /\ [][\A p \in Paths :
          (fs[p] # NoFile /\ fs'[p] = NoFile) =>
            /\ pc = "mvRemove" /\ p = mv.src
            /\ mv.copied /\ ~mv.srcOpen /\ ~mv.dstOpen
            /\ fs[mv.dst] = fs[p] /\ fs'[mv.dst] = fs[p]]_vars
  /\ []((pc = "mvReturn" /\ mv.err # "") => fs[mv.src] = mv.srcBefore)
  /\ [](\A p \in Paths :
          (fs0[p] # NoFile /\ fs[p] = NoFile) => \E q \in Paths : fs[q] = fs0[p])

\* moveFile has removed its source and the destination holds the whole file.
C3_Witness ==
  /\ pc = "mvReturn" /\ mv.err = ""
  /\ fs[mv.src] = NoFile
  /\ fs[mv.dst] = mv.srcBefore

\* ---- C4
\* The files that were below the threshold when the run began.
SmallAtStart == { p \in Paths : fs0[p] # NoFile /\ fs0[p].size < MinFileSize }

\* The path lies in the source tree of one of the pairs.
UnderSource(p) == \E k \in Pairs : InTree(config.SourceDirs[k], p)

\* C4: a file below the threshold is never handed to moveFile, stays at its
\* path with its content, is copied nowhere, and is the source of no log
\* line (one in a source tree is on no log line at all); and nothing but a
\* regular file is ever handed to moveFile.
C4_SmallFilesUntouched ==
  /\ \A p \in SmallAtStart :
       /\ fs[p] = fs0[p]
       /\ mv.src # p
       /\ \A q \in Paths \ {p} : fs[q].id = fs0[p].id => fs[q] = fs0[q]
       /\ \A n \in 1..Len(log) :
            log[n].src # p /\ (UnderSource(p) => log[n].dst # p)
  /\ InMove => (mv.src \in Paths /\ ~IsDirPath(mv.src) /\ mv.srcBefore # NoFile)
  /\ \A n \in LogKinds({"moved", "moveError"}) : log[n].src \in Paths

\* A complete run that moved a file out of a directory and left a file below
\* the threshold in the same directory, next to a subdirectory.
C4_Witness ==
  /\ pc = "done"
  /\ \E p \in SmallAtStart : \E n \in LogKinds({"moved"}) :
       /\ log[n].src[1] = p[1]
       /\ p[1] = "s1"
       /\ fs[p] = fs0[p]

\* ---- C5
\* C5: a failed transfer is logged by the callback and by main, a failed
\* walk by main; once main has logged the error for a source directory,
\* nothing of that tree is visited, transferred or changed in this run; the
\* loop still announces every pair, and the run ends by logging completion.
C5_ErrorEndsWalkOnly ==
  /\ [][(pc = "mvReturn" /\ mv.err # "") =>
          /\ NewLines = << Entry("moveError", mv.src, mv.dst, mv.err),
                           Entry("dirError", Root(config.SourceDirs[i]), NoPath, mv.err) >>
          /\ pc' = "loop" /\ i' = i + 1]_vars
  /\ [][(pc = "walk" /\ pc' = "loop" /\ todo # <<>>) =>
          /\ NewLines = << Entry("dirError", Root(config.SourceDirs[i]), NoPath,
                                 NewLines[1].err) >>
          /\ i' = i + 1]_vars
  /\ [][\A k \in Pairs :
          (DirErrorLogged(config.SourceDirs[k]) /\ log' # <<>>) =>
             /\ \A p \in Paths : InTree(config.SourceDirs[k], p) => fs'[p] = fs[p]
             /\ \A n \in 1..Len(NewLines) :
                  NewLines[n].src = NoPath \/ ~InTree(config.SourceDirs[k], NewLines[n].src)
             /\ mv'.src = NoPath \/ ~InTree(config.SourceDirs[k], mv'.src)
             /\ todo' = <<>> \/ ~InTree(config.SourceDirs[k], Head(todo'))]_vars
  /\ [](pc = "done" =>
          /\ log[Len(log)].kind = "finished"
          /\ \A k \in Pairs :
               /\ \E n \in LogKinds({"processing"}) : log[n].src = Root(config.SourceDirs[k])
               /\ config.SourceDirs[k] \notin Dirs => DirErrorLogged(config.SourceDirs[k]))
  /\ []((LogKinds({"started"}) # {}) =>
          (pc \notin {"exit", "panic"} /\ (pc # "done" => ENABLED Next)))

\* A complete run in which the first pair's source directory does not exist
\* and a file of the second pair was moved after that error was logged.
C5_Witness ==
  /\ pc = "done"
  /\ Len(config.SourceDirs) = 2
  /\ \E n \in LogKinds({"dirError"}) : \E m \in LogKinds({"moved"}) :
       /\ n < m
       /\ log[n].src = Root(config.SourceDirs[1])
       /\ InTree(config.SourceDirs[2], log[m].src)

\* ---- C6
\* When this run began, the path held a file that an earlier run had moved
\* there: a whole file first seen elsewhere, which is no longer at that place.
MovedByEarlierRun(dst) ==
  /\ fs0[dst] # NoFile
  /\ fs0[dst].id # dst
  /\ fs0[fs0[dst].id] = NoFile
Conflicts == { n \in LogKinds({"moveError"}) : log[n].err = "exists" }

SweptRight(n) ==
  LET e == logFiles[n]
      lines(kind, err) ==
        { k \in 1..Len(NewLines) : NewLines[k] = Entry(kind, Join("logs", n), NoPath, err) }
      mentions == { k \in 1..Len(NewLines) : NewLines[k].src = Join("logs", n) }
  IN  IF e.kind # "file"
        THEN logFiles'[n] = e /\ mentions = {}
      ELSE IF e.defect = "stat"
        THEN logFiles'[n] = e /\ Cardinality(lines("sweepError", "stat")) = 1
      ELSE IF e.age > logRetentionDays
        THEN IF e.defect = "remove"
               THEN logFiles'[n] = e /\ Cardinality(lines("sweepError", "remove")) = 1
               ELSE logFiles'[n] = NoLog /\ Cardinality(lines("sweepRemoved", "")) = 1
      ELSE logFiles'[n] = e /\ mentions = {}

\* C7 as stated: the sweep removes every file older than the cutoff and logs
\* it, keeps every other file, and logs a stat or remove error on a file and
\* goes on.
C7_SweepRemovesEveryOldFile ==
  [][pc = "clean" => \A n \in LogNames : SweptRight(n)]_vars

\* C7, amended: when the log directory can be listed, the sweep does the
\* above, one line per file removed or failed on; when it cannot, the sweep
\* logs that error and removes nothing.
C7_SweepUnlessUnlistable ==
  [][pc = "clean" =>
       IF logFiles["."].defect = "read"
         THEN /\ logFiles' = logFiles
              /\ NewLines = <<Entry("sweepError", Root("logs"), NoPath, "readdir")>>
         ELSE /\ \A n \in LogNames : SweptRight(n)
              /\ \A k \in 1..Len(NewLines) : NewLines[k].src[2] \in LogNames
              /\ \A k, m \in 1..Len(NewLines) :
                   NewLines[k].src = NewLines[m].src => k = m]_vars

\* The sweep is over: os.Stat failed on the first file, which is logged, an
\* old file after it was removed, and today's log file is kept.
C7_Witness ==
  /\ pc = "loop" /\ i = 1
  /\ \E k, m \in 1..Len(log) :
       /\ k < m
       /\ log[k] = Entry("sweepError", Join("logs", "l1"), NoPath, "stat")
       /\ log[m] = Entry("sweepRemoved", Join("logs", "l2"), NoPath, "")
  /\ logFiles["l1"].kind = "file"
  /\ logFiles["l2"] = NoLog
  /\ logFiles["today"].kind = "file"

\* ---- C8
\* C8: a transfer returns success to the callback, which then logs it as
\* moved, only if no os call of it returned an error.
C8_NoErrorDropped ==
  (pc = "mvReturn" /\ mv.err = "") => mv.failed = {}

\* ---- C9
\* dst holds what a transfer of src left there, src is still in place, and
\* no transfer of src to dst is under way.
Residue(src, dst) ==
  /\ src # dst
  /\ fs[src] # NoFile
  /\ fs[dst] # NoFile
  /\ fs[src].id = src
  /\ fs[dst].id = src
  /\ ~(pc \in {"mvCopy", "mvClose", "mvRemove"} /\ mv.src = src /\ mv.dst = dst)
\* The transfer that just returned found a residue of its source at its
\* destination.
OntoResidue ==
  /\ pc = "mvReturn"
  /\ mv.dstBefore # NoFile
  /\ mv.dstBefore.id = mv.srcBefore.id

\* C9 as stated: every later transfer of the file to the destination where a
\* failed copy left a residue ends in the conflict error.
C9_LaterAttemptsConflict ==
  OntoResidue => mv.err = "exists"

\* C9, amended: a failed io.Copy leaves the source as it was and the
\* destination in place; from then on neither file changes or goes away, and
\* every later transfer of the file to that destination ends in an error,
\* the conflict error unless opening the source or the destination check
\* itself failed.
C9_ResidueBlocksTransfer ==
  /\ [][(pc = "mvCopy" /\ pc' = "mvReturn") =>
          /\ mv'.err = "copy"
          /\ fs'[mv.src] = fs[mv.src]
          /\ Residue(mv.src, mv.dst)']_vars
  /\ [][\A src, dst \in Paths :
          Residue(src, dst) =>
            /\ Residue(src, dst)'
            /\ fs'[src] = fs[src]
            /\ fs'[dst] = fs[dst]]_vars
  /\ [](OntoResidue =>
          /\ mv.err \in {"open", "stat", "exists"}
          /\ mv.failed \cap {"open", "stat"} = {} => mv.err = "exists"
          /\ fs[mv.src] = mv.srcBefore
          /\ fs[mv.dst] = mv.dstBefore)

\* In a later run, a transfer ended in the conflict error on the part of the
\* file that a failed copy had left at the destination.
C9_Witness ==
  /\ run = 2
  /\ OntoResidue
  /\ mv.err = "exists"
  /\ mv.dstBefore.size < mv.srcBefore.size

\* ---- C10
\* C10 as stated: whenever the two lists differ in length, the run does not
\* complete normally.
C10_FaultWheneverLengthsDiffer ==
  pc = "done" => Len(config.SourceDirs) = Len(config.TargetDirs)

\* C10, amended: the configuration is used as decoded; whenever the target
\* list is shorter than the source list, the run does not log completion but
\* ends in the index fault at the first source without a target, after the
\* pairs before it were processed; a longer target list causes no fault.
C10_FaultIffTargetsShorter ==
  /\ pc \notin {"start", "exit"} => config = cfgFile.content
  /\ pc = "done" => Len(config.SourceDirs) <= Len(config.TargetDirs)
  /\ pc = "panic" =>
       /\ Len(config.TargetDirs) < Len(config.SourceDirs)
       /\ i = Len(config.TargetDirs) + 1
       /\ LogKinds({"finished"}) = {}
       /\ \A k \in 1..Len(config.TargetDirs) :
            \E n \in LogKinds({"processing"}) : log[n].src = Root(config.SourceDirs[k])
  /\ (pc \in {"clean", "loop", "walk"} \/ InMove) => ENABLED Next

\* The run ended in the index fault at the second source directory, after a
\* file of the first pair was moved.
C10_Witness ==
  /\ pc = "panic"
  /\ i = 2
  /\ LogKinds({"moved"}) # {}

====
